---- MODULE Spec2Model ----
(***************************************************************************)
(* State-machine model of src/main.py (BazaarApp): the cart, the order     *)
(* log in memory and in orders.json, the admin credential in memory and    *)
(* in config.json, and the admin panel windows.  Every Tk callback is one  *)
(* atomic action: the program is single-threaded and its dialogs are       *)
(* modal.                                                                  *)
(*                                                                         *)
(* Text is a sequence of one-character strings, so "" is << >>.            *)
(* A dialog (simpledialog.askstring) returns a record: kind "cancel" is    *)
(* Python's None, kind "text" carries the typed text, kind "none" marks a  *)
(* dialog the handler never opened.                                        *)
(***************************************************************************)
EXTENDS Integers, Sequences, FiniteSets, TLC

VARIABLES
    started,      \* BazaarApp.__init__ has run
    orders_file,  \* orders.json:  [exists, doc]
    config_file,  \* config.json:  [exists, doc]
    orders,       \* self.orders
    config,       \* self.config
    cart,         \* self.cart, an insertion-ordered dict: Seq of [id, qty]
    panels,       \* number of open admin panel windows (Toplevel)
    last          \* the latest callback: its name, dialog answers, message boxes

vars == <<started, orders_file, config_file, orders, config, cart, panels, last>>

---------------------------------------------------------------------------
(* Bounds of the model *)

MaxCartQty == 1
MaxOrders == 1
MaxPanels == 1

---------------------------------------------------------------------------
(* Inputs *)

DefaultPw == <<"a", "d", "m", "i", "n", "1", "2", "3">>
OtherPw == <<"p">>
PasswordTexts == {<< >>, DefaultPw, OtherPw}
BuyerTexts == {<< >>, <<" ">>, <<"A">>}
NoteTexts == {<< >>}
SelectableIds == {1, 2}

NotAsked == [kind |-> "none", text |-> << >>]
Cancelled == [kind |-> "cancel", text |-> << >>]

Entered(s) == [kind |-> "text", text |-> s]

askstring(texts) == {Cancelled} \cup {Entered(s) : s \in texts}

\* Python truthiness of what askstring returned: None and "" are falsy
Falsy(d) == d.kind # "text" \/ d.text = << >>

---------------------------------------------------------------------------
(* Utilities *)

sample_menu ==
    << [id |-> 1, name |-> "Nasi Goreng", category |-> "Makanan", price |-> 12000],
       [id |-> 2, name |-> "Mie Goreng", category |-> "Makanan", price |-> 10000],
       [id |-> 3, name |-> "Bakso", category |-> "Makanan", price |-> 15000],
       [id |-> 4, name |-> "Es Teh Manis", category |-> "Minuman", price |-> 5000],
       [id |-> 5, name |-> "Jus Jeruk", category |-> "Minuman", price |-> 8000],
       [id |-> 6, name |-> "Roti Bakar", category |-> "Snack", price |-> 7000] >>

\* the catalog is loaded once and never written: self.menu_items
menu_items == sample_menu

\* SHA-256 hex digest, taken as collision-free on the passwords of the model
hash_password(pw) == <<"sha256", pw>>

NoFile(emptydoc) == [exists |-> FALSE, doc |-> emptydoc]

NoHash == << >>

EnsureOrdersFile(f) ==
    IF f.exists THEN f ELSE [exists |-> TRUE, doc |-> << >>]

EnsureConfigFile(f) ==
    IF f.exists THEN f
    ELSE [exists |-> TRUE, doc |-> [admin_password_sha256 |-> hash_password(DefaultPw)]]

load_orders(f) == f.doc

load_config(f) == f.doc

\* open(ORDERS_FILE, "w") may raise OSError; the document is then left as it was
save_orders(f, data, io_ok) ==
    IF io_ok THEN [exists |-> TRUE, doc |-> data] ELSE f

save_config(f, cfg) == [exists |-> TRUE, doc |-> cfg]

---------------------------------------------------------------------------
(* The cart: a dict in insertion order *)

CartIndex(c, item_id) ==
    LET S == {i \in DOMAIN c : c[i].id = item_id}
    IN IF S = {} THEN 0 ELSE CHOOSE i \in S : TRUE

CartGet(c, item_id, default) ==
    IF CartIndex(c, item_id) = 0 THEN default ELSE c[CartIndex(c, item_id)].qty

CartSet(c, item_id, qty) ==
    IF CartIndex(c, item_id) = 0
    THEN Append(c, [id |-> item_id, qty |-> qty])
    ELSE [c EXCEPT ![CartIndex(c, item_id)].qty = qty]

RECURSIVE CartQty(_)
CartQty(c) == IF c = << >> THEN 0 ELSE Head(c).qty + CartQty(Tail(c))

\* CartIsEmpty with the check dropped
CartIsEmptyMut(c) == FALSE

CartIsEmpty(c) == Len(c) = 0

\* next((x for x in menu if x["id"] == item_id), None): index of the first match, 0 for None
FindItem(menu, item_id) ==
    LET S == {i \in DOMAIN menu : menu[i].id = item_id}
    IN IF S = {} THEN 0 ELSE CHOOSE i \in S : \A j \in S : i <= j

\* the loop of add_selected_to_cart over menu_items[i..]; acc = [cart, added]
RECURSIVE AddLoop(_, _, _, _)
AddLoop(menu, i, qty_vars, acc) ==
    IF i > Len(menu) THEN acc
    ELSE LET id == menu[i].id
             qty == qty_vars[id]
         IN IF qty # 0 /\ qty > 0
            THEN AddLoop(menu, i + 1, qty_vars,
                         [cart |-> CartSet(acc.cart, id, CartGet(acc.cart, id, 0) + qty),
                          added |-> TRUE])
            ELSE AddLoop(menu, i + 1, qty_vars, acc)

\* LineSubtotal with the product replaced by a sum
LineSubtotalMut(price, qty) == price + qty

LineSubtotal(price, qty) == price * qty

\* the loop of place_order over the cart; returns [items, total]
RECURSIVE OrderLoop(_, _, _, _)
OrderLoop(c, menu, order_items, total) ==
    IF c = << >> THEN [items |-> order_items, total |-> total]
    ELSE LET line == Head(c)
             k == FindItem(menu, line.id)
         IN IF k = 0
            THEN OrderLoop(Tail(c), menu, order_items, total)
            ELSE OrderLoop(Tail(c), menu,
                           Append(order_items,
                                  [id |-> line.id, name |-> menu[k].name,
                                   price |-> menu[k].price, qty |-> line.qty]),
                           total + LineSubtotal(menu[k].price, line.qty))

\* datetime.utcnow().isoformat() + "Z": the clock is not part of the model
UtcNow == "utcnow"

NoteOrEmpty(note) == IF Falsy(note) THEN << >> ELSE note.text

BuildOrder(c, menu, buyer, note) ==
    LET r == OrderLoop(c, menu, << >>, 0)
    IN [timestamp |-> UtcNow, buyer |-> buyer.text, note |-> NoteOrEmpty(note),
        items |-> r.items, total |-> r.total]

ClearedCart(c) == << >>

\* PasswordMatches accepting any entered password
PasswordMatchesMut(pw_hash, cfg) == pw_hash # NoHash

\* pw_hash == self.config.get("admin_password_sha256", "")
PasswordMatches(pw_hash, cfg) == pw_hash = cfg.admin_password_sha256

\* AdminButtons with the buttons reachable without a panel
AdminButtonsMut(open_panels) == TRUE

\* the admin buttons are children of an admin panel window, and of nothing else
AdminButtons(open_panels) == open_panels > 0

\* PasswordsDiffer comparing the new password with itself
PasswordsDifferMut(new_pw, confirm) == new_pw # new_pw

\* new_pw != confirm, where confirm may be None
PasswordsDiffer(new_pw, confirm) == new_pw # confirm

\* WithNewPassword with the assignment dropped
WithNewPasswordMut(cfg, new_pw) == cfg

WithNewPassword(cfg, new_pw) ==
    [cfg EXCEPT !.admin_password_sha256 = hash_password(new_pw.text)]

---------------------------------------------------------------------------
(* Message boxes *)

MsgPickQty == "Pilih jumlah item terlebih dahulu."
MsgEmptyCart == "Keranjang kosong."
MsgNameNeeded == "Pemesanan dibatalkan (nama diperlukan)."
MsgOrderOk == "Pesanan diterima!"
MsgWrongPw == "Password salah."
MsgRefreshed == "Daftar pesanan diperbarui."
MsgExported == "Ekspor Selesai"
MsgCleared == "Semua pesanan telah dihapus."
MsgPwCancelled == "Perubahan password dibatalkan."
MsgPwMismatch == "Password tidak cocok."
MsgPwChanged == "Password admin berhasil diperbarui."

\* what a callback leaves behind for the user: answers given, boxes shown, or a traceback
Done(op, msgs, a1, a2) ==
    [op |-> op, msgs |-> msgs, raised |-> FALSE, a1 |-> a1, a2 |-> a2, out |-> << >>]

Raised(op, a1, a2) ==
    [op |-> op, msgs |-> << >>, raised |-> TRUE, a1 |-> a1, a2 |-> a2, out |-> << >>]

---------------------------------------------------------------------------
(* Initial state: the process starts with the documents as earlier runs left them *)

Init ==
    /\ started = FALSE
    /\ orders_file \in {NoFile(<< >>), [exists |-> TRUE, doc |-> << >>]}
    /\ config_file \in
          {NoFile([admin_password_sha256 |-> NoHash])}
          \cup {[exists |-> TRUE, doc |-> [admin_password_sha256 |-> hash_password(p)]] :
                  p \in PasswordTexts \ {<< >>}}
    /\ orders = << >>
    /\ config = [admin_password_sha256 |-> NoHash]
    /\ cart = << >>
    /\ panels = 0
    /\ last = Done("main", << >>, NotAsked, NotAsked)

---------------------------------------------------------------------------
(* Actions *)

\* BazaarApp.__init__: ensure_files_exist, then load the three documents
Startup ==
    /\ ~started
    /\ started' = TRUE
    /\ orders_file' = EnsureOrdersFile(orders_file)
    /\ config_file' = EnsureConfigFile(config_file)
    /\ orders' = load_orders(EnsureOrdersFile(orders_file))
    /\ config' = load_config(EnsureConfigFile(config_file))
    /\ cart' = << >>
    /\ panels' = 0
    /\ last' = Done("__init__", << >>, NotAsked, NotAsked)

\* the spinbox values the user has set, one per menu item (self.item_qty_vars)
SpinValues == 0 .. MaxCartQty

QtyVars ==
    {[id \in {menu_items[i].id : i \in DOMAIN menu_items} |->
         IF id \in SelectableIds THEN s[id] ELSE 0] : s \in [SelectableIds -> SpinValues]}

add_selected_to_cart ==
    /\ started
    /\ \E qty_vars \in QtyVars :
         LET r == AddLoop(menu_items, 1, qty_vars, [cart |-> cart, added |-> FALSE])
         IN /\ CartQty(r.cart) <= MaxCartQty
            /\ IF ~r.added
               THEN /\ cart' = cart
                    /\ last' = Done("add_selected_to_cart", <<MsgPickQty>>, NotAsked, NotAsked)
               ELSE /\ cart' = r.cart
                    /\ last' = Done("add_selected_to_cart", << >>, NotAsked, NotAsked)
    /\ UNCHANGED <<started, orders_file, config_file, orders, config, panels>>

clear_cart ==
    /\ started
    /\ cart' = ClearedCart(cart)
    /\ last' = Done("clear_cart", << >>, NotAsked, NotAsked)
    /\ UNCHANGED <<started, orders_file, config_file, orders, config, panels>>

place_order ==
    /\ started
    /\ IF CartIsEmpty(cart)
       THEN /\ last' = Done("place_order", <<MsgEmptyCart>>, NotAsked, NotAsked)
            /\ UNCHANGED <<orders, orders_file, cart>>
       ELSE \E buyer \in askstring(BuyerTexts) :
              IF Falsy(buyer)
              THEN /\ last' = Done("place_order", <<MsgNameNeeded>>, buyer, NotAsked)
                   /\ UNCHANGED <<orders, orders_file, cart>>
              ELSE \E note \in askstring(NoteTexts), io_ok \in BOOLEAN :
                     /\ Len(orders) < MaxOrders
                     /\ orders' = Append(orders, BuildOrder(cart, menu_items, buyer, note))
                     /\ orders_file' = save_orders(orders_file, orders', io_ok)
                     /\ IF io_ok
                        THEN /\ cart' = ClearedCart(cart)
                             /\ last' = Done("place_order", <<MsgOrderOk>>, buyer, NotAsked)
                        ELSE /\ cart' = cart
                             /\ last' = Raised("place_order", buyer, NotAsked)
    /\ UNCHANGED <<started, config_file, config, panels>>

\* open_admin_login, and open_admin_panel when the password matches
open_admin_login ==
    /\ started
    /\ \E pw \in askstring(PasswordTexts) :
         IF pw.kind = "cancel"
         THEN /\ last' = Done("open_admin_login", << >>, pw, NotAsked)
              /\ UNCHANGED <<orders, panels>>
         ELSE IF PasswordMatches(hash_password(pw.text), config)
         THEN /\ panels < MaxPanels
              /\ panels' = panels + 1
              /\ orders' = load_orders(orders_file)
              /\ last' = Done("open_admin_login", << >>, pw, NotAsked)
         ELSE /\ last' = Done("open_admin_login", <<MsgWrongPw>>, pw, NotAsked)
              /\ UNCHANGED <<orders, panels>>
    /\ UNCHANGED <<started, orders_file, config_file, config, cart>>

\* the user closes an admin panel window
close_admin_panel ==
    /\ started
    /\ panels > 0
    /\ panels' = panels - 1
    /\ last' = Done("close_admin_panel", << >>, NotAsked, NotAsked)
    /\ UNCHANGED <<started, orders_file, config_file, orders, config, cart>>

_admin_refresh ==
    /\ started
    /\ AdminButtons(panels)
    /\ orders' = load_orders(orders_file)
    /\ last' = Done("_admin_refresh", <<MsgRefreshed>>, NotAsked, NotAsked)
    /\ UNCHANGED <<started, orders_file, config_file, config, cart, panels>>

\* the export artifact is written once and never read again: it is kept in last.out
_admin_export_json ==
    /\ started
    /\ AdminButtons(panels)
    /\ last' = [Done("_admin_export_json", <<MsgExported>>, NotAsked, NotAsked)
                  EXCEPT !.out = load_orders(orders_file)]
    /\ UNCHANGED <<started, orders_file, config_file, orders, config, cart, panels>>

\* the write of the emptied log is taken to succeed
_admin_clear_orders ==
    /\ started
    /\ AdminButtons(panels)
    /\ \E yes \in BOOLEAN :
         IF ~yes
         THEN /\ last' = Done("_admin_clear_orders", << >>, NotAsked, NotAsked)
              /\ UNCHANGED <<orders, orders_file>>
         ELSE /\ orders_file' = save_orders(orders_file, << >>, TRUE)
              /\ orders' = load_orders(orders_file')
              /\ last' = Done("_admin_clear_orders", <<MsgRefreshed, MsgCleared>>,
                              NotAsked, NotAsked)
    /\ UNCHANGED <<started, config_file, config, cart, panels>>

_admin_change_password ==
    /\ started
    /\ AdminButtons(panels)
    /\ \E new_pw \in askstring(PasswordTexts) :
         IF Falsy(new_pw)
         THEN /\ last' = Done("_admin_change_password", <<MsgPwCancelled>>, new_pw, NotAsked)
              /\ UNCHANGED <<config, config_file>>
         ELSE \E confirm \in askstring(PasswordTexts) :
                IF PasswordsDiffer(new_pw, confirm)
                THEN /\ last' = Done("_admin_change_password", <<MsgPwMismatch>>, new_pw, confirm)
                     /\ UNCHANGED <<config, config_file>>
                ELSE /\ config' = WithNewPassword(config, new_pw)
                     /\ config_file' = save_config(config_file, config')
                     /\ last' = Done("_admin_change_password", <<MsgPwChanged>>, new_pw, confirm)
    /\ UNCHANGED <<started, orders_file, orders, cart, panels>>

Next ==
    \/ Startup
    \/ add_selected_to_cart
    \/ clear_cart
    \/ place_order
    \/ open_admin_login
    \/ close_admin_panel
    \/ _admin_refresh
    \/ _admin_export_json
    \/ _admin_clear_orders
    \/ _admin_change_password

Spec == Init /\ [][Next]_vars

---------------------------------------------------------------------------
(* Properties *)

PlaceOrderStep == last'.op = "place_order"

OrderAccepted == PlaceOrderStep /\ last'.msgs = <<MsgOrderOk>>

RECURSIVE SumQtyPrice(_)
SumQtyPrice(items) ==
    IF items = << >> THEN 0
    ELSE Head(items).qty * Head(items).price + SumQtyPrice(Tail(items))

CatalogPrice(item_id) ==
    (CHOOSE it \in {sample_menu[i] : i \in DOMAIN sample_menu} : it.id = item_id).price

RECURSIVE CartSum(_)
CartSum(c) ==
    IF c = << >> THEN 0
    ELSE Head(c).qty * CatalogPrice(Head(c).id) + CartSum(Tail(c))

TotalsExact(log) == \A i \in DOMAIN log : log[i].total = SumQtyPrice(log[i].items)

C2_EmptyCartRejected ==
    [][(PlaceOrderStep /\ cart = << >>) =>
          /\ last'.msgs = <<MsgEmptyCart>>
          /\ ~last'.raised
          /\ orders' = orders
          /\ orders_file' = orders_file]_vars

C2_Witness ==
    /\ last.op = "place_order"
    /\ last.msgs = <<MsgEmptyCart>>
    /\ cart = << >>
    /\ Len(orders) > 0
    /\ orders_file.doc = orders

Whitespace == {" "}

RECURSIVE LStrip(_)
LStrip(s) == IF s # << >> /\ Head(s) \in Whitespace THEN LStrip(Tail(s)) ELSE s

\* C3: place_order with a buyer name that is empty or only whitespace is
\* refused, so that no record with such a buyer is ever appended and
\* persisted: orders.json holds no record whose buyer is blank.
C3_BlankBuyerRejected ==
    \A i \in DOMAIN orders_file.doc : LStrip(orders_file.doc[i].buyer) # << >>

\* C4: the in-memory order log never holds a record that orders.json lacks
\* (a failed persist step is rolled back).
C4_NoGhostRecord ==
    \A i \in DOMAIN orders :
        i \in DOMAIN orders_file.doc /\ orders_file.doc[i] = orders[i]

Authenticates(pw, cfg) == PasswordMatches(hash_password(pw), cfg)

ChangePasswordStep == last'.op = "_admin_change_password"

SamePasswordTwice ==
    ChangePasswordStep /\ last'.a1.kind = "text" /\ last'.a1.text # << >>
        /\ last'.a2 = last'.a1

C6_MismatchKeepsCredential ==
    [][(ChangePasswordStep /\ last'.a1 # last'.a2) =>
          /\ last'.a2.kind # "none" => last'.msgs = <<MsgPwMismatch>>
          /\ config' = config
          /\ config_file' = config_file]_vars

C6_Witness ==
    /\ last.op = "_admin_change_password"
    /\ last.msgs = <<MsgPwMismatch>>
    /\ last.a1 = Entered(OtherPw)
    /\ last.a2 = Entered(DefaultPw)
    /\ config_file.doc = config

LoginStep == last'.op = "open_admin_login"

\* C7: a login with an entered password opens an admin panel exactly when the
\* password's hash equals the stored credential hash, shows the wrong-password
\* error otherwise, and never changes the credential; when config.json is
\* absent at startup the stored hash is that of admin123.
C7_Authenticate ==
    /\ [][(LoginStep /\ last'.a1.kind = "text") =>
            /\ (panels' = panels + 1)
                 <=> (hash_password(last'.a1.text) = config.admin_password_sha256)
            /\ (panels' # panels + 1) => (panels' = panels /\ last'.msgs = <<MsgWrongPw>>)
            /\ config' = config
            /\ config_file' = config_file]_vars
    /\ [][(~started /\ started' /\ ~config_file.exists) =>
            /\ config'.admin_password_sha256
                 = hash_password(<<"a", "d", "m", "i", "n", "1", "2", "3">>)
            /\ config_file'.exists
            /\ config_file'.doc = config']_vars

C7_Witness ==
    /\ last.op = "open_admin_login"
    /\ last.a1 = Entered(DefaultPw)
    /\ last.msgs = << >>
    /\ panels = 1
    /\ config.admin_password_sha256 = hash_password(DefaultPw)

AdminOps ==
    {"_admin_refresh", "_admin_export_json", "_admin_clear_orders", "_admin_change_password"}

\* C8: no admin panel is open at startup; a panel opens only by a login whose
\* password hash equals the stored hash, one panel per login; closing a panel
\* removes it; the admin operations run only while a panel is open.
C8_AdminGate ==
    /\ [](~started => panels = 0)
    /\ [][(~started /\ started') => panels' = 0]_vars
    /\ [][panels' > panels =>
            /\ LoginStep
            /\ last'.a1.kind = "text"
            /\ hash_password(last'.a1.text) = config.admin_password_sha256
            /\ panels' = panels + 1]_vars
    /\ [][(last'.op = "close_admin_panel") => panels' = panels - 1]_vars
    /\ [][panels' < panels => last'.op = "close_admin_panel"]_vars
    /\ [][(last'.op \in AdminOps) => (panels > 0 /\ panels' = panels)]_vars

C8_Witness ==
    /\ last.op = "_admin_clear_orders"
    /\ last.msgs = <<MsgRefreshed, MsgCleared>>
    /\ panels = 1

IsPrefix(a, b) == Len(a) <= Len(b) /\ SubSeq(b, 1, Len(a)) = a

LogChange(a, b) ==
    \/ b = a
    \/ OrderAccepted /\ Len(b) = Len(a) + 1 /\ IsPrefix(a, b)
    \/ last'.op = "_admin_clear_orders" /\ last'.msgs = <<MsgRefreshed, MsgCleared>>
         /\ b = << >>

\* C9: across any step the order log, in memory and in orders.json, stays
\* the same, gains one record at the end (accepted place_order) or becomes
\* empty (confirmed clear); login, change_password, export, refresh,
\* add-to-cart and clear-cart leave it unchanged.
C9_AppendMostly ==
    [][/\ LogChange(orders, orders')
       /\ LogChange(orders_file.doc, orders_file'.doc)
       /\ last'.op \in {"open_admin_login", "_admin_change_password", "_admin_export_json",
                        "_admin_refresh", "add_selected_to_cart", "clear_cart"}
            => (orders' = orders /\ orders_file' = orders_file)]_vars

SameLines(items, c) ==
    /\ Len(items) = Len(c)
    /\ \A i \in DOMAIN c : items[i].id = c[i].id /\ items[i].qty = c[i].qty

\* C10: the cart becomes empty only by clear_cart or by an accepted
\* place_order; an accepted place_order empties the cart and appends exactly
\* one record, built from the cart's lines; a place_order refused for an
\* empty cart or a missing buyer name leaves the cart and the order log as
\* they were; and no cart is recorded twice: whenever a record is appended to
\* the order log, the cart it was built from is emptied in the same step.
C10_CartLifecycle ==
    /\ [][(cart # << >> /\ cart' = << >>) =>
            (last'.op = "clear_cart" \/ OrderAccepted)]_vars
    /\ [][OrderAccepted =>
            /\ cart' = << >>
            /\ Len(orders') = Len(orders) + 1
            /\ IsPrefix(orders, orders')
            /\ SameLines(orders'[Len(orders')].items, cart)]_vars
    /\ [][(PlaceOrderStep /\ last'.msgs \in {<<MsgEmptyCart>>, <<MsgNameNeeded>>}) =>
            /\ cart' = cart
            /\ orders' = orders
            /\ orders_file' = orders_file]_vars
    /\ [][Len(orders') > Len(orders) => cart' = << >>]_vars

\* the part of C10 that does not depend on the persist step
CartLifecycleListedCases ==
    /\ [][(cart # << >> /\ cart' = << >>) =>
            (last'.op = "clear_cart" \/ OrderAccepted)]_vars
    /\ [][OrderAccepted =>
            /\ cart' = << >>
            /\ Len(orders') = Len(orders) + 1
            /\ IsPrefix(orders, orders')
            /\ SameLines(orders'[Len(orders')].items, cart)]_vars
    /\ [][(PlaceOrderStep /\ last'.msgs \in {<<MsgEmptyCart>>, <<MsgNameNeeded>>}) =>
            /\ cart' = cart
            /\ orders' = orders
            /\ orders_file' = orders_file]_vars

\* the part of C9 that does not depend on the persist step: orders.json
\* itself only ever stays the same, grows at the end, or becomes empty
PersistedLogAppendMostly ==
    [][\/ orders_file'.doc = orders_file.doc
       \/ OrderAccepted /\ IsPrefix(orders_file.doc, orders_file'.doc)
       \/ last'.op = "_admin_clear_orders" /\ orders_file'.doc = << >>]_vars

====
